---- MODULE Spec2Model ----
(***************************************************************************)
(* A model of src/src/app.py, the FastHTML AppImage demo: module-level     *)
(* startup (port resolution, working directory), the in-memory demo state  *)
(* with its request handlers running on the server's worker threads, and   *)
(* the one-shot browser launcher running on a threading.Timer.             *)
(*                                                                         *)
(* Strings the code inspects character by character (FASTHTML_PORT, the    *)
(* task text) are sequences of one-character strings.  An environment      *)
(* variable is <<>> when unset and <<v>> when set to v.                    *)
(***************************************************************************)
EXTENDS Integers, Sequences, FiniteSets, TLC

(***************************************************************************)
(* Bounds of the model.                                                    *)
(***************************************************************************)
\* longest FASTHTML_PORT string enumerated
MaxLen == 3
\* ports the OS may hand out to a bind on port 0
NumEphemeral == 2
\* names mkdtemp may pick
NumTempNames == 2
\* server worker threads running sync handlers
NumWorkers == 2
\* requests the clients send in a run of the store specification
MaxRequests == 3
\* requests the clients send in a run of the whole-system specification
MaxSysRequests == 1

(***************************************************************************)
(* Program constants.                                                      *)
(***************************************************************************)
\* threading.Timer(1.5, ...): the delay, in ticks of half a second
TimerDelay == 3

(***************************************************************************)
(* Python's int(str), as far as the characters below exercise it.          *)
(***************************************************************************)
DigitChars == <<"0", "1", "2", "3", "4", "5", "6", "7", "8", "9">>

Digits == {DigitChars[i] : i \in 1..Len(DigitChars)}

DigitVal(c) == (CHOOSE i \in 1..Len(DigitChars) : DigitChars[i] = c) - 1

\* the characters FASTHTML_PORT is made of in the port specification
PortChars == {"0", "5", "-", "+", " ", "_", "x"}

RECURSIVE LStrip(_)
LStrip(s) == IF s # <<>> /\ Head(s) = " " THEN LStrip(Tail(s)) ELSE s

RECURSIVE RStrip(_)
RStrip(s) ==
    IF s # <<>> /\ s[Len(s)] = " " THEN RStrip(SubSeq(s, 1, Len(s) - 1)) ELSE s

\* str.strip() for the whitespace the model enumerates
Strip(s) == RStrip(LStrip(s))

\* the part of a stripped literal after its optional sign
Unsigned(s) == IF s # <<>> /\ Head(s) \in {"+", "-"} THEN Tail(s) ELSE s

\* digits, with single underscores allowed between two digits only
ValidDigits(d) ==
    /\ d # <<>>
    /\ \A i \in 1..Len(d) : d[i] \in Digits \cup {"_"}
    /\ d[1] \in Digits
    /\ d[Len(d)] \in Digits
    /\ \A i \in 1..(Len(d) - 1) : ~(d[i] = "_" /\ d[i + 1] = "_")

\* whether int(s) returns rather than raising ValueError
IntParses(s) == ValidDigits(Unsigned(Strip(s)))

RECURSIVE DigitsValue(_, _)
DigitsValue(d, acc) ==
    IF d = <<>> THEN acc
    ELSE IF Head(d) = "_" THEN DigitsValue(Tail(d), acc)
    ELSE DigitsValue(Tail(d), 10 * acc + DigitVal(Head(d)))

\* the value int(s) returns when it parses
IntValue(s) ==
    LET t == Strip(s)
        v == DigitsValue(Unsigned(t), 0)
    IN  IF t # <<>> /\ Head(t) = "-" THEN -v ELSE v

(***************************************************************************)
(* The environment and the host.                                           *)
(***************************************************************************)
RECURSIVE StringsUpTo(_)
StringsUpTo(n) ==
    IF n = 0 THEN {<<>>}
    ELSE LET shorter == StringsUpTo(n - 1)
         IN  shorter \cup {Append(s, c) : s \in {t \in shorter : Len(t) = n - 1},
                                          c \in PortChars}

\* every value FASTHTML_PORT takes in the port specification
PortStrings == StringsUpTo(MaxLen)

\* os.environ.get(name, default)
EnvGet(env, name, default) == IF env[name] = <<>> THEN default ELSE env[name][1]

\* Python truthiness of os.environ.get(name): set, and not the empty string
EnvTruthyPresent(env, name) == env[name] # <<>>
EnvTruthy(env, name) == env[name] # <<>> /\ env[name][1] # ""

\* str.lower() on the FASTHTML_BROWSER values the model enumerates
Lower(s) ==
    CASE s = "NONE" -> "none"
      [] s = "App" -> "app"
      [] OTHER -> s

BrowserValues == {<<>>, <<"none">>, <<"NONE">>, <<"app">>, <<"App">>, <<"firefox">>}

AppImageValues == {<<>>, <<"">>, <<"/opt/demo.AppImage">>}

Platforms == {"linux", "darwin"}

\* the ports a bind on port 0 may be given
EphemeralPorts == {54 + i : i \in 1..NumEphemeral}

\* directories: 0 is where the process was started, the others are the
\* names tempfile.mkdtemp(prefix='fasthtml-app-') may create
TempDirs == 1..NumTempNames


(***************************************************************************)
(* State.                                                                  *)
(***************************************************************************)
VARIABLES
    environ,       \* os.environ: FASTHTML_PORT, APPIMAGE, FASTHTML_BROWSER
    platform,      \* sys.platform
    held,          \* ports other listeners on the host hold
    dirs,          \* directories that exist
    cwd,           \* the process's working directory
    pc,            \* the main thread's position in the module
    failure,       \* what ended the process, "" while it lives
    PORT,          \* <<>> until resolved, then <<port>>
    WORK_DIR,      \* <<>> until decided, then <<directory>>
    server,        \* "down" or "listening"
    lpc,           \* the timer thread's position
    elapsed,       \* ticks since timer.start(), up to TimerDelay
    browser_mode,  \* open_browser's local, "" until read
    idx,           \* index of the candidate the for loop is at
    tried,         \* candidates handed to subprocess.Popen, in order
    spawned,       \* candidates whose Popen returned
    opened,        \* calls of webbrowser.open
    printed,       \* lines open_browser printed
    launches,      \* calls of open_browser
    timers,        \* calls of timer.start()
    workers,       \* per worker thread: the request it runs
    counter,       \* the global counter
    todos,         \* the global todos
    requestsLeft,  \* requests the clients have still to send
    incDone,       \* /increment requests answered
    addDone,       \* /add-todo requests answered
    added,         \* task arguments, in the order their appends took effect
    origCwd,       \* the working directory at process start
    dirs0,         \* the directories that existed at process start
    heldAtResolve  \* the ports held when PORT was resolved

envVars == <<environ, platform, origCwd, dirs0>>
fsVars == <<dirs, cwd, WORK_DIR>>
portVars == <<PORT, heldAtResolve>>
mainVars == <<pc, failure, server>>
launchVars == <<lpc, browser_mode, idx, tried, spawned, opened, printed, launches>>
storeVars == <<workers, counter, todos, requestsLeft, incDone, addDone, added>>
vars == <<environ, platform, held, dirs, cwd, pc, failure, PORT, WORK_DIR, server,
          lpc, elapsed, browser_mode, idx, tried, spawned, opened, printed,
          launches, timers, workers, counter, todos, requestsLeft, incDone,
          addDone, added, origCwd, dirs0, heldAtResolve>>

Workers == 1..NumWorkers

Idle == [op |-> "idle", tmp |-> 0, task |-> <<>>]

\* the module's statements in the order the interpreter runs them
ProgramWorkDirFirst == <<"workdir", "port", "app", "timer", "run">>
Program == <<"port", "workdir", "app", "timer", "run">>

\* the statement after stmt; "serving" is uvicorn.run's accept loop
NextStmt(stmt) ==
    LET i == CHOOSE k \in 1..Len(Program) : Program[k] = stmt
    IN  IF i = Len(Program) THEN "serving" ELSE Program[i + 1]

Alive == failure = ""

\* the state common to every initial state: nothing resolved, nothing run
\* (counter and todos are bound at lines 50-51; until then 0 and <<>> stand
\* for the names not being defined)
InitProcess ==
    /\ pc = Program[1]
    /\ failure = ""
    /\ PORT = <<>>
    /\ WORK_DIR = <<>>
    /\ server = "down"
    /\ lpc = "unset"
    /\ elapsed = 0
    /\ browser_mode = ""
    /\ idx = 0
    /\ tried = <<>>
    /\ spawned = <<>>
    /\ opened = 0
    /\ printed = <<>>
    /\ launches = 0
    /\ timers = 0
    /\ workers = [w \in Workers |-> Idle]
    /\ counter = 0
    /\ todos = <<>>
    /\ incDone = 0
    /\ addDone = 0
    /\ added = <<>>
    /\ origCwd = cwd
    /\ dirs0 = dirs
    /\ heldAtResolve = {}

\* the port specification: every FASTHTML_PORT string, any ports held
InitPort ==
    /\ environ \in [PORT : {<<>>} \cup {<<s>> : s \in PortStrings},
                    APPIMAGE : {<<>>}, BROWSER : {<<"none">>}]
    /\ platform = "linux"
    /\ held \in SUBSET EphemeralPorts
    /\ dirs = {0}
    /\ cwd = 0
    /\ requestsLeft = 0
    /\ InitProcess

(***************************************************************************)
(* Startup: the module's top-level statements.                             *)
(***************************************************************************)
\* an exception reaching the top of the main thread ends the process
Crash(why) ==
    /\ pc' = "dead"
    /\ failure' = why

\* PORT_ENV != '0'
UsesEnvPortByValue(port_env) == ~(IntParses(port_env) /\ IntValue(port_env) = 0)
UsesEnvPort(port_env) == port_env # <<"0">>

\* find_free_port(): the ports bind(('', 0)) may be given
FreePorts(inUse) == EphemeralPorts \ inUse

\* PORT_ENV = os.environ.get('FASTHTML_PORT', '0')
\* PORT = int(PORT_ENV) if PORT_ENV != '0' else find_free_port()
ResolvePort ==
    /\ pc = "port"
    /\ Alive
    /\ LET PORT_ENV == EnvGet(environ, "PORT", <<"0">>)
       IN  IF UsesEnvPort(PORT_ENV)
           THEN IF IntParses(PORT_ENV)
                THEN /\ PORT' = <<IntValue(PORT_ENV)>>
                     /\ pc' = NextStmt("port")
                     /\ UNCHANGED failure
                ELSE /\ Crash("int: ValueError")
                     /\ UNCHANGED PORT
           ELSE \/ \E p \in FreePorts(held) :
                     /\ PORT' = <<p>>
                     /\ pc' = NextStmt("port")
                     /\ UNCHANGED failure
                \/ /\ FreePorts(held) = {}
                   /\ Crash("find_free_port: OSError")
                   /\ UNCHANGED PORT
    /\ heldAtResolve' = held
    /\ UNCHANGED <<envVars, held, fsVars, server, launchVars, elapsed, timers,
                   storeVars>>

\* if os.environ.get('APPIMAGE'): WORK_DIR = mkdtemp(...); os.chdir(WORK_DIR)
\* else: WORK_DIR = Path.cwd()
SetupWorkDir ==
    /\ pc = "workdir"
    /\ Alive
    /\ IF EnvTruthy(environ, "APPIMAGE")
       THEN \/ \E d \in TempDirs \ dirs :
                 /\ dirs' = dirs \cup {d}
                 /\ WORK_DIR' = <<d>>
                 /\ cwd' = d
                 /\ pc' = NextStmt("workdir")
                 /\ UNCHANGED failure
            \/ /\ Crash("mkdtemp: OSError")
               /\ UNCHANGED <<dirs, WORK_DIR, cwd>>
       ELSE /\ WORK_DIR' = <<cwd>>
            /\ pc' = NextStmt("workdir")
            /\ UNCHANGED <<dirs, cwd, failure>>
    /\ UNCHANGED <<envVars, held, portVars, server, launchVars, elapsed, timers,
                   storeVars>>

\* app, rt = fast_app(...); todos = []; counter = 0
CreateApp ==
    /\ pc = "app"
    /\ Alive
    /\ todos' = <<>>
    /\ counter' = 0
    /\ pc' = NextStmt("app")
    /\ UNCHANGED <<envVars, held, fsVars, portVars, failure, server, launchVars,
                   elapsed, timers, workers, requestsLeft, incDone, addDone, added>>

\* timer = threading.Timer(1.5, lambda: open_browser(url)); timer.start()
StartTimer ==
    /\ pc = "timer"
    /\ Alive
    /\ lpc' = "waiting"
    /\ elapsed' = 0
    /\ timers' = timers + 1
    /\ pc' = NextStmt("timer")
    /\ UNCHANGED <<envVars, held, fsVars, portVars, failure, server, browser_mode,
                   idx, tried, spawned, opened, printed, launches, storeVars>>

\* whether the server's bind of port succeeds: 0 asks the OS for any port
BindSucceeds(port, inUse) ==
    \/ port = 0 /\ FreePorts(inUse) # {}
    \/ port \in 1..65535 /\ port \notin inUse

\* uvicorn.run(app, host=HOST, port=PORT): bind and serve, or log and exit
UvicornRun ==
    /\ pc = "run"
    /\ Alive
    /\ IF BindSucceeds(PORT[1], held)
       THEN /\ server' = "listening"
            /\ pc' = NextStmt("run")
            /\ UNCHANGED failure
       ELSE /\ Crash("uvicorn: exit")
            /\ UNCHANGED server
    /\ UNCHANGED <<envVars, held, fsVars, portVars, launchVars, elapsed, timers,
                   storeVars>>

\* between find_free_port() and the server's bind, another process binds the
\* port that was found
OtherListenerBinds ==
    /\ Alive
    /\ PORT # <<>>
    /\ server = "down"
    /\ \E p \in (EphemeralPorts \cap {PORT[1]}) \ held : held' = held \cup {p}
    /\ UNCHANGED <<envVars, fsVars, portVars, mainVars, launchVars, elapsed,
                   timers, storeVars>>

(***************************************************************************)
(* The demo state and its request handlers.  FastHTML runs a handler       *)
(* declared with def, not async def, on a worker thread of the server's    *)
(* pool, so two requests may be in their handlers at once.                 *)
(***************************************************************************)
\* the task strings the clients send: empty, plain, with blanks around it
TaskValues == {<<>>, <<"a">>, <<" ", "a", " ">>}

IncOps == {"inc_store", "inc_render"}
AddOps == {"add_render"}

\* the server hands a request to an idle worker thread
CanAccept(w) ==
    /\ Alive
    /\ server = "listening"
    /\ requestsLeft > 0
    /\ workers[w].op = "idle"
    /\ \A v \in Workers : v < w => workers[v].op # "idle"

\* list.append(x): one C call, atomic under the interpreter lock
ListAppendStripped(list, x) == Append(list, Strip(x))
ListAppend(list, x) == Append(list, x)

\* @rt('/'): get() renders counter, todos and the system information
Get(w) ==
    /\ CanAccept(w)
    /\ requestsLeft' = requestsLeft - 1
    /\ UNCHANGED <<envVars, held, fsVars, portVars, mainVars, launchVars, elapsed,
                   timers, workers, counter, todos, incDone, addDone, added>>

\* @rt('/system-info'): system_info() renders WORK_DIR or os.getcwd()
SystemInfo(w) ==
    /\ CanAccept(w)
    /\ requestsLeft' = requestsLeft - 1
    /\ UNCHANGED <<envVars, held, fsVars, portVars, mainVars, launchVars, elapsed,
                   timers, workers, counter, todos, incDone, addDone, added>>

\* increment(), counter += 1, first half: load the global and add 1
IncrementLoad(w) ==
    /\ CanAccept(w)
    /\ requestsLeft' = requestsLeft - 1
    /\ workers' = [workers EXCEPT ![w] = [op |-> "inc_store", tmp |-> counter + 1,
                                          task |-> <<>>]]
    /\ UNCHANGED <<envVars, held, fsVars, portVars, mainVars, launchVars, elapsed,
                   timers, counter, todos, incDone, addDone, added>>

\* increment(), counter += 1, second half: store the sum into the global
IncrementStore(w) ==
    /\ Alive
    /\ workers[w].op = "inc_store"
    /\ counter' = workers[w].tmp
    /\ workers' = [workers EXCEPT ![w].op = "inc_render"]
    /\ UNCHANGED <<envVars, held, fsVars, portVars, mainVars, launchVars, elapsed,
                   timers, todos, requestsLeft, incDone, addDone, added>>

\* increment(): return Span(f"Count: {counter}"), and the request is answered
IncrementRender(w) ==
    /\ Alive
    /\ workers[w].op = "inc_render"
    /\ workers' = [workers EXCEPT ![w] = Idle]
    /\ incDone' = incDone + 1
    /\ UNCHANGED <<envVars, held, fsVars, portVars, mainVars, launchVars, elapsed,
                   timers, counter, todos, requestsLeft, addDone, added>>

\* add_todo(task): todos.append(task)
AddTodoAppend(w) ==
    /\ CanAccept(w)
    /\ \E task \in TaskValues :
         /\ todos' = ListAppend(todos, task)
         /\ added' = Append(added, task)
         /\ workers' = [workers EXCEPT ![w] = [op |-> "add_render", tmp |-> 0,
                                               task |-> task]]
    /\ requestsLeft' = requestsLeft - 1
    /\ UNCHANGED <<envVars, held, fsVars, portVars, mainVars, launchVars, elapsed,
                   timers, counter, incDone, addDone>>

\* add_todo(task): return Ul(*[Li(todo) for todo in todos]), and it is answered
AddTodoRender(w) ==
    /\ Alive
    /\ workers[w].op = "add_render"
    /\ workers' = [workers EXCEPT ![w] = Idle]
    /\ addDone' = addDone + 1
    /\ UNCHANGED <<envVars, held, fsVars, portVars, mainVars, launchVars, elapsed,
                   timers, counter, todos, requestsLeft, incDone, added>>

(***************************************************************************)
(* The browser launcher, on the timer's thread.                            *)
(***************************************************************************)
Candidates == <<"google-chrome", "chromium", "firefox">>

SpawnOutcomes == {"spawned", "FileNotFoundError", "OSError"}

\* Timer.run(): the interval has passed
TimerExpiredAtOnce == TRUE
TimerExpired == elapsed >= TimerDelay

\* threading.Timer calls its function once and its thread ends
TimerRepeats(how) == "waiting"
TimerThreadEnd(how) == how

\* an exception leaving open_browser ends the timer's thread, nothing else
RaiseEndsProcess ==
    /\ lpc' = "raised"
    /\ Crash("open_browser: exception")
    /\ server' = "down"
RaiseInThread ==
    /\ lpc' = TimerThreadEnd("raised")
    /\ UNCHANGED mainVars

\* if browser_mode == 'none'
IsNoneModeNever(mode) == FALSE
IsNoneMode(mode) == mode = "none"

\* except FileNotFoundError: continue
Caught(exc) == exc = "FileNotFoundError"

\* time passes while the timer waits
Tick ==
    /\ Alive
    /\ lpc = "waiting"
    /\ elapsed < TimerDelay
    /\ elapsed' = elapsed + 1
    /\ UNCHANGED <<envVars, held, fsVars, portVars, mainVars, launchVars, timers,
                   storeVars>>

\* the timer calls open_browser(url):
\* browser_mode = os.environ.get('FASTHTML_BROWSER', 'default').lower()
TimerFire ==
    /\ Alive
    /\ lpc = "waiting"
    /\ TimerExpired
    /\ launches' = launches + 1
    /\ browser_mode' = Lower(EnvGet(environ, "BROWSER", "default"))
    /\ lpc' = "mode"
    /\ UNCHANGED <<envVars, held, fsVars, portVars, mainVars, elapsed, idx, tried,
                   spawned, opened, printed, timers, storeVars>>

\* the two if statements on browser_mode, up to the for loop
SelectMode ==
    /\ Alive
    /\ lpc = "mode"
    /\ IF IsNoneMode(browser_mode)
       THEN /\ printed' = printed \o <<"Server running at", "auto-open disabled">>
            /\ lpc' = TimerThreadEnd("returned")
            /\ UNCHANGED idx
       ELSE IF browser_mode = "app"
       THEN /\ printed' = Append(printed, "Opening in app mode at")
            /\ IF platform = "linux"
               THEN lpc' = "loop" /\ idx' = 1
               ELSE lpc' = "default" /\ UNCHANGED idx
       ELSE /\ lpc' = "default"
            /\ UNCHANGED <<printed, idx>>
    /\ UNCHANGED <<envVars, held, fsVars, portVars, mainVars, elapsed, browser_mode,
                   tried, spawned, opened, launches, timers, storeVars>>

\* one pass of the for loop: subprocess.Popen(browser_cmd, ...)
TrySpawn ==
    /\ Alive
    /\ lpc = "loop"
    /\ tried' = Append(tried, Candidates[idx])
    /\ \E outcome \in SpawnOutcomes :
         IF outcome = "spawned"
         THEN /\ spawned' = Append(spawned, Candidates[idx])
              /\ lpc' = TimerThreadEnd("returned")
              /\ UNCHANGED <<idx, mainVars>>
         ELSE IF Caught(outcome)
         THEN /\ IF idx < Len(Candidates)
                 THEN idx' = idx + 1 /\ UNCHANGED lpc
                 ELSE lpc' = "default" /\ UNCHANGED idx
              /\ UNCHANGED <<spawned, mainVars>>
         ELSE /\ RaiseInThread
              /\ UNCHANGED <<idx, spawned>>
    /\ UNCHANGED <<envVars, held, fsVars, portVars, elapsed, browser_mode, opened,
                   printed, launches, timers, storeVars>>

\* print(f"Opening in browser at {url}"); webbrowser.open(url)
OpenDefault ==
    /\ Alive
    /\ lpc = "default"
    /\ printed' = Append(printed, "Opening in browser at")
    /\ opened' = opened + 1
    /\ \E outcome \in {"True", "False", "Error"} :
         IF outcome = "Error"
         THEN RaiseInThread
         ELSE lpc' = TimerThreadEnd("returned") /\ UNCHANGED mainVars
    /\ UNCHANGED <<envVars, held, fsVars, portVars, elapsed, browser_mode, idx,
                   tried, spawned, launches, timers, storeVars>>

(***************************************************************************)
(* Specifications.                                                         *)
(***************************************************************************)
NextStartup ==
    \/ ResolvePort
    \/ SetupWorkDir
    \/ CreateApp
    \/ StartTimer
    \/ UvicornRun
    \/ OtherListenerBinds

NextHandlers ==
    \E w \in Workers :
        \/ Get(w)
        \/ SystemInfo(w)
        \/ IncrementLoad(w)
        \/ IncrementStore(w)
        \/ IncrementRender(w)
        \/ AddTodoAppend(w)
        \/ AddTodoRender(w)

NextLauncher ==
    \/ Tick
    \/ TimerFire
    \/ SelectMode
    \/ TrySpawn
    \/ OpenDefault

NextStore == NextStartup \/ NextHandlers

Next == NextStartup \/ NextHandlers \/ NextLauncher

\* the store specification: the default environment, MaxRequests requests
InitStore ==
    /\ environ = [PORT |-> <<>>, APPIMAGE |-> <<>>, BROWSER |-> <<"none">>]
    /\ platform = "linux"
    /\ held = {}
    /\ dirs = {0}
    /\ cwd = 0
    /\ requestsLeft = MaxRequests
    /\ InitProcess

\* the whole system: every environment in which the host has a free port to
\* give, MaxSysRequests requests
Init ==
    /\ environ \in [PORT : {<<>>, << <<"5", "5">> >>, << <<"x">> >>},
                    APPIMAGE : AppImageValues, BROWSER : BrowserValues]
    /\ platform \in Platforms
    /\ held \in {h \in SUBSET EphemeralPorts : h # EphemeralPorts}
    /\ dirs \in {{0}, {0, 1}}
    /\ cwd = 0
    /\ requestsLeft = MaxSysRequests
    /\ InitProcess

SpecPort == InitPort /\ [][NextStartup]_vars

SpecStore == InitStore /\ [][NextStore]_vars

Spec == Init /\ [][Next]_vars

(***************************************************************************)
(* Helpers of the properties below.                                        *)
(***************************************************************************)
IsPrefix(a, b) == Len(a) <= Len(b) /\ SubSeq(b, 1, Len(a)) = a

InFlight(ops) == {w \in Workers : workers[w].op \in ops}

\* the decimal numeral of an integer
RECURSIVE NatDecimal(_)
NatDecimal(n) ==
    IF n < 10 THEN <<DigitChars[n + 1]>>
    ELSE Append(NatDecimal(n \div 10), DigitChars[(n % 10) + 1])

Decimal(n) == IF n < 0 THEN <<"-">> \o NatDecimal(-n) ELSE NatDecimal(n)

\* whether s is the decimal numeral of an integer: -?[1-9][0-9]* or 0
IsNumeral(s) ==
    LET u == IF s # <<>> /\ Head(s) = "-" THEN Tail(s) ELSE s
    IN  /\ u # <<>>
        /\ \A i \in 1..Len(u) : u[i] \in Digits
        /\ Len(u) = 1 \/ u[1] # "0"
        /\ s # <<"-", "0">>

LauncherEnded == lpc \in {"returned", "raised"}

(***************************************************************************)
(* C1: once every /increment request has been answered, counter equals the *)
(* number of /increment requests answered, whatever the interleaving of    *)
(* the worker threads: no increment is lost.                               *)
(***************************************************************************)
C1_NoLostIncrement ==
    InFlight(IncOps) = {} => counter = incDone

(***************************************************************************)
(* C2: todos is exactly the sequence of task arguments in the order their  *)
(* appends took effect, each unchanged; its length is the number of        *)
(* /add-todo requests answered plus those appended and not yet answered;   *)
(* and no step removes, reorders or alters an element already in it.       *)
(***************************************************************************)
C2_TaskListIsAdded ==
    /\ [](/\ todos = added
          /\ Len(todos) = addDone + Cardinality(InFlight(AddOps))
          /\ \A i \in 1..Len(todos) : todos[i] \in TaskValues)
    /\ [][IsPrefix(todos, todos')]_vars

C2_Witness ==
    /\ todos = << <<" ", "a", " ">>, <<>>, <<"a">> >>
    /\ addDone = 3
    /\ InFlight(AddOps) = {}

(***************************************************************************)
(* C3: a FASTHTML_PORT that int() accepts and that is not "0" resolves to  *)
(* exactly its integer (the numeral of n to n); "0" or unset resolves to a *)
(* port in 1..65535 that no other listener held when it was resolved; a    *)
(* string int() rejects ends startup with the server never listening.      *)
(***************************************************************************)
C3_PortResolution ==
    LET e == environ.PORT
        resolved == pc # "port" /\ failure # "int: ValueError"
                        /\ failure # "find_free_port: OSError"
    IN  /\ (e # <<>> /\ IntParses(e[1]) /\ e[1] # <<"0">>) =>
              /\ failure # "int: ValueError"
              /\ pc # "port" => PORT = <<IntValue(e[1])>>
        /\ (e # <<>> /\ IsNumeral(e[1]) /\ e[1] # <<"0">>) =>
              /\ failure # "int: ValueError"
              /\ pc # "port" => PORT # <<>> /\ Decimal(PORT[1]) = e[1]
        /\ (e = <<>> \/ e = << <<"0">> >>) =>
              /\ failure # "int: ValueError"
              /\ resolved => /\ PORT # <<>>
                             /\ PORT[1] \in 1..65535
                             /\ PORT[1] \notin heldAtResolve
        /\ (e # <<>> /\ ~IntParses(e[1])) =>
              /\ PORT = <<>>
              /\ server = "down"
              /\ timers = 0
              /\ pc = "port" \/ (pc = "dead" /\ failure = "int: ValueError")

C3_Witness ==
    /\ environ.PORT = << <<"5", "0", "0">> >>
    /\ PORT = <<500>>
    /\ server = "listening"

(***************************************************************************)
(* C4, as claimed: once the working directory is decided, it is a newly    *)
(* created directory other than the original one if APPIMAGE is present in *)
(* the environment, and the original one if APPIMAGE is absent.            *)
(***************************************************************************)
C4_PresentMeansTempDir ==
    WORK_DIR # <<>> =>
        IF environ.APPIMAGE # <<>>
        THEN cwd # origCwd /\ cwd \notin dirs0
        ELSE cwd = origCwd

(***************************************************************************)
(* C4, amended: if APPIMAGE is set to a non-empty string, the working      *)
(* directory after startup is a newly created temporary directory other    *)
(* than the original one; if APPIMAGE is unset or empty it is the original *)
(* one.  It is decided before the server listens and before the timer is   *)
(* started, and no handler or launcher step changes it afterwards.         *)
(***************************************************************************)
C4_WorkDir ==
    /\ WORK_DIR # <<>> =>
          IF environ.APPIMAGE \notin {<<>>, <<"">>}
          THEN /\ cwd = WORK_DIR[1]
               /\ cwd # origCwd
               /\ cwd \notin dirs0
               /\ cwd \in dirs
          ELSE /\ cwd = origCwd
               /\ WORK_DIR = <<origCwd>>
               /\ dirs = dirs0
    /\ WORK_DIR = <<>> =>
          /\ cwd = origCwd
          /\ dirs = dirs0
          /\ server = "down"
          /\ timers = 0

C4_Witness ==
    /\ environ.APPIMAGE = <<"/opt/demo.AppImage">>
    /\ server = "listening"
    /\ cwd # origCwd
    /\ LauncherEnded
    /\ requestsLeft = 0
    /\ InFlight(IncOps \cup AddOps) = {}

(***************************************************************************)
(* C5, as claimed: the working directory is decided before the port is     *)
(* resolved, and the port is resolved before the server binds.             *)
(***************************************************************************)
C5_WorkDirBeforePort ==
    /\ (PORT # <<>> \/ failure \in {"int: ValueError", "find_free_port: OSError"})
          => WORK_DIR # <<>>
    /\ (server = "listening" \/ failure = "uvicorn: exit") => PORT # <<>>

(***************************************************************************)
(* C5, amended: the port is resolved before the working directory is       *)
(* decided (no temporary directory is created before), and both are done   *)
(* before the server binds.                                                *)
(***************************************************************************)
C5_PortBeforeWorkDir ==
    /\ (WORK_DIR # <<>> \/ dirs # dirs0 \/ failure = "mkdtemp: OSError")
          => PORT # <<>>
    /\ (server = "listening" \/ failure = "uvicorn: exit")
          => PORT # <<>> /\ WORK_DIR # <<>>

C5_Witness ==
    /\ server = "listening"
    /\ dirs # dirs0
    /\ PORT = <<55>>

(***************************************************************************)
(* C6, as claimed: the launcher is scheduled once and run once in every    *)
(* run of the process, so a process that has ended has run it exactly      *)
(* once.                                                                   *)
(***************************************************************************)
C6_ExactlyOnceEveryRun ==
    /\ launches <= 1
    /\ timers <= 1
    /\ ~Alive => launches = 1

(***************************************************************************)
(* C6, amended: open_browser is scheduled at most once, and once in every  *)
(* run that reaches uvicorn.run; it runs at most once, never a second time *)
(* and never again after it failed, and it has run once whenever its       *)
(* thread has ended; a waiting timer does not keep the server from         *)
(* binding.                                                                *)
(***************************************************************************)
C6_AtMostOnce ==
    /\ launches <= 1
    /\ timers <= 1
    /\ pc \in {"run", "serving"} => timers = 1
    /\ LauncherEnded => launches = 1
    /\ launches = 1 => lpc \notin {"unset", "waiting"}
    /\ (pc = "run" /\ Alive) => ENABLED UvicornRun

C6_Witness ==
    /\ lpc = "raised"
    /\ launches = 1
    /\ server = "listening"
    /\ requestsLeft = 0

(***************************************************************************)
(* C7: no step of the launcher, whatever its outcome, changes the server's *)
(* listening state, the main thread, counter, todos or a request in        *)
(* flight; and a listening server stays listening.                         *)
(***************************************************************************)
C7_LauncherIsolated ==
    /\ [][(lpc # "unset" /\ launchVars' # launchVars) =>
              /\ mainVars' = mainVars
              /\ counter' = counter
              /\ todos' = todos
              /\ workers' = workers]_vars
    /\ [][server = "listening" => (server' = "listening" /\ failure' = "")]_vars

C7_Witness ==
    /\ lpc = "raised"
    /\ tried = <<"google-chrome">>
    /\ server = "listening"
    /\ counter = 1
    /\ incDone = 1

(***************************************************************************)
(* C8: in app mode on Linux the candidates are tried in order; the first   *)
(* that spawns ends the launcher with no later one tried and the default   *)
(* browser not opened; a candidate that fails to spawn, for whatever       *)
(* reason, is skipped; and when none spawns the default browser is opened. *)
(***************************************************************************)
C8_FallbackChain ==
    (browser_mode = "app" /\ platform = "linux") =>
        /\ IsPrefix(tried, Candidates)
        /\ spawned # <<>> =>
              /\ spawned = <<tried[Len(tried)]>>
              /\ opened = 0
              /\ lpc = "returned"
        /\ opened > 0 => tried = Candidates /\ spawned = <<>>
        /\ (LauncherEnded /\ spawned = <<>>) => opened = 1

(***************************************************************************)
(* C9: with FASTHTML_BROWSER=none the launcher prints the server URL and   *)
(* the notice, hands nothing to subprocess.Popen and never calls           *)
(* webbrowser.open.                                                        *)
(***************************************************************************)
C9_NoneMode ==
    environ.BROWSER = <<"none">> =>
        /\ tried = <<>>
        /\ spawned = <<>>
        /\ opened = 0
        /\ lpc \in {"unset", "waiting", "mode", "returned"}
        /\ lpc = "returned" => printed = <<"Server running at", "auto-open disabled">>
        /\ lpc # "returned" => printed = <<>>

C9_Witness ==
    /\ environ.BROWSER = <<"none">>
    /\ lpc = "returned"
    /\ printed # <<>>
    /\ server = "listening"

(***************************************************************************)
(* C10, as claimed: the launcher has not acted (been called, printed,      *)
(* spawned or opened anything) unless the server is listening.             *)
(***************************************************************************)
C10_OnlyWhenListening ==
    (launches > 0 \/ printed # <<>> \/ tried # <<>> \/ opened > 0)
        => server = "listening"

(***************************************************************************)
(* C10, amended: the launcher has not acted unless timer.start() was       *)
(* called, the main thread has gone on to uvicorn.run, and the timer's     *)
(* 1.5 s have passed since; the server need not be listening yet.          *)
(***************************************************************************)
C10_OnlyAfterDelay ==
    (launches > 0 \/ printed # <<>> \/ tried # <<>> \/ opened > 0) =>
        /\ timers = 1
        /\ elapsed >= TimerDelay
        /\ pc \in {"run", "serving", "dead"}
        /\ PORT # <<>> /\ WORK_DIR # <<>>

C10_Witness ==
    /\ launches = 1
    /\ opened = 1
    /\ server = "down"
    /\ pc = "run"

====
